---------------------------- MODULE Spec2Model ----------------------------
(***************************************************************************)
(* Model of gc_multi_game_aggregator.py: the ag-Grid extraction            *)
(* (grid_to_lines_and_total), the routing of grids to sections             *)
(* (parse_player_grids), the per-page scrape (scrape_one_game) and the     *)
(* aggregation loop with its browser session (aggregate, main).            *)
(*                                                                         *)
(* A DOM row is a sequence of cells <<col-id, text>>; a record (a Python   *)
(* dict) is a function from labels to texts, the empty dict being <<>>; a  *)
(* DataFrame is the sequence of its row records, a column a row lacks      *)
(* being NaN (the label is not in the row's DOMAIN).  A URL is the         *)
(* sequence of its path segments.                                          *)
(*                                                                         *)
(* Specifications:                                                         *)
(*   Spec         the script, from aggregate(URLS) to the CSV files, on a  *)
(*                site that may show any page of up to MaxGrids grids      *)
(*   SpecSession  the same script on a site of five pages                  *)
(*   SpecGrid     grid_to_lines_and_total on one grid subtree              *)
(*   SpecParse    parse_player_grids on the grid roots of one page         *)
(*   SpecTeams    the team names block of scrape_one_game on one header    *)
(***************************************************************************)
EXTENDS Integers, Sequences, FiniteSets, TLC

VARIABLES
    urls,             \* aggregate's argument: the list of box-score URLs
    site,             \* which web site the browser is on: "any", "teams"
    pc,               \* position of the script: start, loop, finally, ...
    url_idx,          \* index in urls of the URL the for loop takes next
    drv,              \* the browser session: "none", "open", "closed"
    quit_count,       \* number of drv.quit() calls
    navigated,        \* history: <<url, state of drv>> of every driver.get
    batting_lines, pitching_lines, batting_totals, pitching_totals,
    scraped,          \* history: per completed scrape, the url, the page and
                      \* what scrape_one_game returned for it
    exc,              \* the exception unwinding the script, or "none"
    returned,         \* the four tables aggregate returned
    csv,              \* the files written by the main section
    root,             \* SpecGrid: the grid subtree given to the extractor
    extracted,        \* SpecGrid: what grid_to_lines_and_total returned
    html,             \* SpecParse: the grid roots of the page
    data,             \* SpecParse: what parse_player_grids returned
    soup,             \* SpecTeams: the header markup of the page
    teams             \* SpecTeams: the (away, home) names resolved

vars == <<urls, site, pc, url_idx, drv, quit_count, navigated, batting_lines,
          pitching_lines, batting_totals, pitching_totals, scraped, exc,
          returned, csv, root, extracted, html, data, soup, teams>>

aggVars == <<urls, site, pc, url_idx, drv, quit_count, navigated, batting_lines,
             pitching_lines, batting_totals, pitching_totals, scraped, exc,
             returned, csv>>

----------------------------------------------------------------------------
(* Bounds *)

MaxRows == 3
MaxGrids == 3
MaxAnchors == 3
MaxUrls == 2

----------------------------------------------------------------------------
(* Python values *)

None == "None"

Range(f) == {f[x] : x \in DOMAIN f}

\* d[k] = v on a dict
Put(d, k, v) == [x \in (DOMAIN d) \cup {k} |-> IF x = k THEN v ELSE d[x]]

\* d.get(k, default)
Get(d, k, default) == IF k \in DOMAIN d THEN d[k] ELSE default

SeqsUpTo(S, n) == UNION {[1..k -> S] : k \in 0..n}

\* s[:n]
Take(s, n) == SubSeq(s, 1, IF Len(s) < n THEN Len(s) ELSE n)

\* pd.concat(dfs, ignore_index=True): the rows of the frames, in order
RECURSIVE Concat(_)
Concat(dfs) == IF dfs = <<>> THEN <<>> ELSE Head(dfs) \o Concat(Tail(dfs))

\* df[col] = v with a scalar v: every row of the frame gets the value
SetCol(df, col, v) == [k \in DOMAIN df |-> Put(df[k], col, v)]

\* the indices from k on, in order, at which the sequence of flags is TRUE
RECURSIVE IndicesWhere(_, _)
IndicesWhere(flags, k) ==
    IF k > Len(flags) THEN <<>>
    ELSE (IF flags[k] THEN <<k>> ELSE <<>>) \o IndicesWhere(flags, k + 1)

----------------------------------------------------------------------------
(* 2. ag-Grid -> DataFrames utilities *)

\* rec = {headers.get(c["col-id"], c["col-id"]): c.get_text() for c in cells}
RECURSIVE RowRecord(_, _)
RowRecord(headers, cells) ==
    IF cells = <<>> THEN <<>>
    ELSE LET n == Len(cells)
             c == cells[n]
         IN  Put(RowRecord(headers, SubSeq(cells, 1, n - 1)),
                 Get(headers, c[1], c[1]), c[2])

\* rec.get(headers.get("player", "player")) == "TEAM"
IsTeamRow(headers, rec) ==
    Get(rec, Get(headers, "player", "player"), None) = "TEAM"

\* the for loop of grid_to_lines_and_total over the rows from k on
RECURSIVE GridRows(_, _, _, _, _)
GridRows(headers, rows, k, lines, total) ==
    IF k > Len(rows) THEN [lines |-> lines, total |-> total]
    ELSE LET rec == RowRecord(headers, rows[k])
         IN  IF DOMAIN rec = {}
               THEN GridRows(headers, rows, k + 1, lines, total)
             ELSE IF IsTeamRow(headers, rec)
               THEN GridRows(headers, rows, k + 1, lines, rec)
             ELSE GridRows(headers, rows, k + 1, Append(lines, rec), total)

\* a mutant: the TEAM row is also kept among the lines
RECURSIVE GridRowsKeepTeam(_, _, _, _, _)
GridRowsKeepTeam(headers, rows, k, lines, total) ==
    IF k > Len(rows) THEN [lines |-> lines, total |-> total]
    ELSE LET rec == RowRecord(headers, rows[k])
         IN  IF DOMAIN rec = {}
               THEN GridRowsKeepTeam(headers, rows, k + 1, lines, total)
             ELSE GridRowsKeepTeam(headers, rows, k + 1, Append(lines, rec),
                                   IF IsTeamRow(headers, rec) THEN rec ELSE total)

grid_to_lines_and_total_keep_team(r) ==
    LET res == GridRowsKeepTeam(r.headers, r.rows, 1, <<>>, <<>>)
    IN  [lines |-> res.lines,
         total |-> IF DOMAIN res.total # {} THEN <<res.total>> ELSE <<>>]

\* returns the lines DataFrame and the totals DataFrame (one row or empty)
grid_to_lines_and_total(r) ==
    LET res == GridRows(r.headers, r.rows, 1, <<>>, <<>>)
    IN  [lines |-> res.lines,
         total |-> IF DOMAIN res.total # {} THEN <<res.total>> ELSE <<>>]

\* set(df.columns) of a DataFrame built from a list of dicts
Columns(df) == UNION {DOMAIN df[k] : k \in DOMAIN df}

\* a mutant: the pitching signature is tested first
SectionPitchingFirst(cols) ==
    IF {"IP", "ER", "SO"} \subseteq cols THEN "pitching"
    ELSE IF {"AB", "R", "H"} \subseteq cols THEN "batting"
    ELSE "unclassified"

\* the if / elif of parse_player_grids on cols = set(lines.columns)
Section(cols) ==
    IF {"AB", "R", "H"} \subseteq cols THEN "batting"
    ELSE IF {"IP", "ER", "SO"} \subseteq cols THEN "pitching"
    ELSE "unclassified"

EmptyData == [batting |-> <<>>, pitching |-> <<>>,
              batting_totals |-> <<>>, pitching_totals |-> <<>>]

\* the for loop of parse_player_grids over the roots from k on
RECURSIVE ParseRoots(_, _, _)
ParseRoots(roots, k, d) ==
    IF k > Len(roots) THEN d
    ELSE LET g == grid_to_lines_and_total(roots[k])
             sec == Section(Columns(g.lines))
         IN  IF sec = "batting" THEN
                 ParseRoots(roots, k + 1,
                   [d EXCEPT !.batting = Append(@, g.lines),
                             !.batting_totals =
                                 IF g.total # <<>> THEN Append(@, g.total) ELSE @])
             ELSE IF sec = "pitching" THEN
                 ParseRoots(roots, k + 1,
                   [d EXCEPT !.pitching = Append(@, g.lines),
                             !.pitching_totals =
                                 IF g.total # <<>> THEN Append(@, g.total) ELSE @])
             ELSE ParseRoots(roots, k + 1, d)

\* roots = soup.select("div.ag-root"), in DOM order
parse_player_grids(roots) == ParseRoots(roots, 1, EmptyData)

----------------------------------------------------------------------------
(* 3. scrape a single game *)

\* a URL is the sequence of its path segments; these stand for the
\* 36-character identifiers UUID_RE matches
UuidShaped == {"0a1b-game-1", "0a1b-game-2"}

\* UUID_RE.search(url): the first match, or None
UuidSearch(url) ==
    LET hits == IndicesWhere([k \in DOMAIN url |-> url[k] \in UuidShaped], 1)
    IN  IF hits = <<>> THEN None ELSE url[hits[1]]

\* driver.current_url after driver.get(url)
CurrentUrl(url, page) ==
    IF page.redirected_to = <<>> THEN url ELSE page.redirected_to

\* soup.select('header a[href*="/teams/"]')
TeamLinks(sp) ==
    LET idx == IndicesWhere([k \in DOMAIN sp.header_links |->
                               "teams" \in Range(sp.header_links[k].href)], 1)
    IN  [j \in DOMAIN idx |-> sp.header_links[idx[j]]]

\* a mutant: the fallback list is padded with a single "unknown"
team_names_short_padding(sp) ==
    IF sp.away_tag # None /\ sp.home_tag # None
      THEN [exc |-> "none", away |-> sp.away_tag, home |-> sp.home_tag]
    ELSE LET tags == Take(TeamLinks(sp), 2)
             names == [j \in DOMAIN tags |-> tags[j].text]
             pair == Take(names \o <<"unknown">>, 2)
         IN  IF Len(pair) = 2
               THEN [exc |-> "none", away |-> pair[1], home |-> pair[2]]
             ELSE [exc |-> "ValueError", away |-> None, home |-> None]

\* a mutant: a tag that is present is used even when the other one is missing
team_names_partial_tags(sp) ==
    LET tags == Take(TeamLinks(sp), 2)
        names == [j \in DOMAIN tags |-> tags[j].text]
        pair == Take(names \o <<"unknown", "unknown">>, 2)
    IN  [exc |-> "none",
         away |-> IF sp.away_tag # None THEN sp.away_tag ELSE pair[1],
         home |-> IF sp.home_tag # None THEN sp.home_tag ELSE pair[2]]

\* the team names block of scrape_one_game; the tuple unpacking raises
\* ValueError unless the padded list has two elements
team_names(sp) ==
    IF sp.away_tag # None /\ sp.home_tag # None
      THEN [exc |-> "none", away |-> sp.away_tag, home |-> sp.home_tag]
    ELSE LET tags == Take(TeamLinks(sp), 2)
             names == [j \in DOMAIN tags |-> tags[j].text]
             pair == Take(names \o <<"unknown", "unknown">>, 2)
         IN  IF Len(pair) = 2
               THEN [exc |-> "none", away |-> pair[1], home |-> pair[2]]
             ELSE [exc |-> "ValueError", away |-> None, home |-> None]

Raised(e) == [exc |-> e, grids |-> EmptyData, date_str |-> None,
              game_id |-> None, away_team |-> None, home_team |-> None]

\* the page is what the browser shows after driver.get(url)
scrape_one_game(url, page) ==
    IF "login" \in Range(CurrentUrl(url, page)) THEN Raised("RuntimeError")
    ELSE IF ~page.player_cell THEN Raised("TimeoutException")
    ELSE IF page.event_time = None THEN Raised("AttributeError: event-time")
    ELSE LET tn == team_names(page)
         IN  IF tn.exc # "none" THEN Raised(tn.exc)
             ELSE IF UuidSearch(url) = None
               THEN Raised("AttributeError: game id")
             ELSE [exc |-> "none",
                   grids |-> parse_player_grids(page.roots),
                   date_str |-> page.event_time,
                   game_id |-> UuidSearch(url),
                   away_team |-> tn.away, home_team |-> tn.home]

----------------------------------------------------------------------------
(* The grids the extractor is given *)

HdrFull == [player |-> "NAME", ab |-> "AB", r |-> "R", h |-> "H",
            ip |-> "IP", er |-> "ER", so |-> "SO"]
HdrNoPlayer == [ab |-> "AB", r |-> "R", h |-> "H",
                ip |-> "IP", er |-> "ER", so |-> "SO"]
HdrNone == <<>>

HeaderPool == {HdrFull, HdrNoPlayer, HdrNone}

BatRow(name) == <<<<"player", name>>, <<"ab", "4">>, <<"r", "1">>, <<"h", "2">>>>
PitRow(name) == <<<<"player", name>>, <<"ip", "5">>, <<"er", "0">>, <<"so", "3">>>>
BothRow(name) == BatRow(name) \o Tail(PitRow(name))
OtherRow(name) == <<<<"player", name>>, <<"pos", "SS">>>>
NoCells == <<>>

RowPool == {BatRow("Ann"), BatRow("TEAM"), PitRow("Bo"), PitRow("TEAM"),
            BothRow("Cy"), OtherRow("Di"), NoCells}

Roots == {[headers |-> hd, rows |-> rs] :
            hd \in HeaderPool, rs \in SeqsUpTo(RowPool, MaxRows)}

\* the grids of the pages
GBatTot == [headers |-> HdrFull, rows |-> <<BatRow("Ann"), BatRow("TEAM")>>]
GBat == [headers |-> HdrNoPlayer, rows |-> <<BatRow("Bea")>>]
GPitTot == [headers |-> HdrFull, rows |-> <<PitRow("Bo"), PitRow("TEAM")>>]
GOther == [headers |-> HdrFull, rows |-> <<OtherRow("Di")>>]
GBoth == [headers |-> HdrFull, rows |-> <<BothRow("Cy")>>]
GMixed == [headers |-> HdrFull, rows |-> <<PitRow("Flo"), BatRow("Gus")>>]
GTeamOnly == [headers |-> HdrFull, rows |-> <<BatRow("TEAM")>>]
GRawIds == [headers |-> HdrNone, rows |-> <<BatRow("Ed"), NoCells>>]

ParseGrids == {GBatTot, GBat, GPitTot, GOther, GBoth, GMixed, GTeamOnly, GRawIds}

----------------------------------------------------------------------------
(* Idle values of the variables a specification does not use *)

NotReturned == [done |-> FALSE, bat_lines |-> <<>>, pit_lines |-> <<>>,
                bat_tot |-> <<>>, pit_tot |-> <<>>]
NotExtracted == [done |-> FALSE, lines |-> <<>>, total |-> <<>>]
IdleRoot == [headers |-> <<>>, rows |-> <<>>]

AggIdle ==
    /\ urls = <<>> /\ site = "none" /\ pc = "idle" /\ url_idx = 0 /\ drv = "none"
    /\ quit_count = 0 /\ navigated = <<>>
    /\ batting_lines = <<>> /\ pitching_lines = <<>>
    /\ batting_totals = <<>> /\ pitching_totals = <<>>
    /\ scraped = <<>> /\ exc = "none" /\ returned = NotReturned /\ csv = <<>>

GridIdle == root = IdleRoot /\ extracted = NotExtracted
NotParsed == [done |-> FALSE] @@ EmptyData
ParseIdle == html = <<>> /\ data = NotParsed
NotResolved == [done |-> FALSE, exc |-> "none", away |-> None, home |-> None]
IdleSoup == [away_tag |-> None, home_tag |-> None, header_links |-> <<>>]
TeamsIdle == soup = IdleSoup /\ teams = NotResolved

----------------------------------------------------------------------------
(* 4. aggregate all URLs *)

\* a mutant: the first frame is taken for the home team's
StampTeamsSwapped(dfs, away_team, home_team) ==
    [k \in DOMAIN dfs |->
        IF k = 1
          THEN SetCol(SetCol(dfs[k], "team_name", home_team), "home_away", "home")
        ELSE IF k = 2
          THEN SetCol(SetCol(dfs[k], "team_name", away_team), "home_away", "away")
        ELSE dfs[k]]

\* a mutant: the second frame is not stamped
StampTeamsAwayOnly(dfs, away_team, home_team) ==
    [k \in DOMAIN dfs |->
        IF k = 1
          THEN SetCol(SetCol(dfs[k], "team_name", away_team), "home_away", "away")
        ELSE dfs[k]]

\* dfs[0] gets the away team, dfs[1], when there is one, the home team
StampTeams(dfs, away_team, home_team) ==
    [k \in DOMAIN dfs |->
        IF k = 1
          THEN SetCol(SetCol(dfs[k], "team_name", away_team), "home_away", "away")
        ELSE IF k = 2
          THEN SetCol(SetCol(dfs[k], "team_name", home_team), "home_away", "home")
        ELSE dfs[k]]

\* a mutant: only the first frame gets the game's fields
StampGameFirstFrameOnly(dfs, section, gid, date_str) ==
    [k \in DOMAIN dfs |->
        IF k = 1
          THEN SetCol(SetCol(SetCol(dfs[k], "section", section), "game_id", gid),
                      "game_date", date_str)
        ELSE dfs[k]]

\* for df in dfs: section, game_id and game_date are set
StampGame(dfs, section, gid, date_str) ==
    [k \in DOMAIN dfs |->
        SetCol(SetCol(SetCol(dfs[k], "section", section), "game_id", gid),
               "game_date", date_str)]

\* a mutant: only the away and the home frame are appended
StampedFirstTwo(dfs, section, res) ==
    Take(StampGame(StampTeams(dfs, res.away_team, res.home_team),
                   section, res.game_id, res.date_str), 2)

\* the frames one pass of the loop over mapping appends for a section
Stamped(dfs, section, res) ==
    StampGame(StampTeams(dfs, res.away_team, res.home_team),
              section, res.game_id, res.date_str)

----------------------------------------------------------------------------
(* The URLs and the pages of the aggregation *)

Url1 == <<"teams", "t1", "schedule", "0a1b-game-1", "box-score">>
Url2 == <<"teams", "t2", "schedule", "0a1b-game-2", "box-score">>
UrlNoId == <<"teams", "t1", "schedule", "box-score">>
UrlPool == {Url1, Url2, UrlNoId}

PageGrids == {GBatTot, GBat, GPitTot, GOther}

PageHeads == {[event_time |-> "Apr 1", away_tag |-> "Ants", home_tag |-> "Hawks",
               header_links |-> <<>>],
              [event_time |-> "May 2", away_tag |-> None, home_tag |-> None,
               header_links |-> <<[href |-> <<"teams", "t1">>, text |-> "Lions"]>>]}

ReadyPages == {hd @@ [redirected_to |-> <<>>, player_cell |-> TRUE, roots |-> rs] :
                 hd \in PageHeads, rs \in SeqsUpTo(PageGrids, MaxGrids)}

LoginPage == [redirected_to |-> <<"login">>, player_cell |-> FALSE,
              event_time |-> None, away_tag |-> None, home_tag |-> None,
              header_links |-> <<>>, roots |-> <<>>]
StuckPage == [LoginPage EXCEPT !.redirected_to = <<>>]
UndatedPage == [StuckPage EXCEPT !.player_cell = TRUE, !.roots = <<GBat>>]

Pages == ReadyPages \cup {LoginPage, StuckPage, UndatedPage}

\* the site "teams": one box score per team and the three pages on which
\* scrape_one_game raises
SessionPages ==
    {[event_time |-> "Apr 1", away_tag |-> "Ants", home_tag |-> "Hawks",
      header_links |-> <<>>, redirected_to |-> <<>>, player_cell |-> TRUE,
      roots |-> <<GBat, GBatTot, GPitTot>>],
     [event_time |-> "May 2", away_tag |-> None, home_tag |-> None,
      header_links |-> <<>>, redirected_to |-> <<>>, player_cell |-> TRUE,
      roots |-> <<GPitTot>>],
     LoginPage, StuckPage, UndatedPage}

\* the pages the browser may show after driver.get
SitePages == IF site = "any" THEN Pages ELSE SessionPages

----------------------------------------------------------------------------
(* Spec: the script from aggregate(URLS) to the CSV files *)

Start == /\ GridIdle /\ ParseIdle /\ TeamsIdle
         /\ urls \in SeqsUpTo(UrlPool, MaxUrls)
         /\ pc = "start" /\ url_idx = 1 /\ drv = "none" /\ quit_count = 0
         /\ navigated = <<>> /\ scraped = <<>> /\ exc = "none"
         /\ batting_lines = <<>> /\ pitching_lines = <<>>
         /\ batting_totals = <<>> /\ pitching_totals = <<>>
         /\ returned = NotReturned /\ csv = <<>>

Init == Start /\ site = "any"

pureVars == <<root, extracted, html, data, soup, teams>>
tableVars == <<batting_lines, pitching_lines, batting_totals, pitching_totals>>

\* clone_profile and make_driver succeed: the session is acquired
MakeDriver ==
    /\ pc = "start"
    /\ drv' = "open" /\ pc' = "loop"
    /\ UNCHANGED <<urls, site, url_idx, quit_count, navigated, tableVars, scraped,
                   exc, returned, csv, pureVars>>

\* clone_profile or make_driver raises: no session, the try is not entered
MakeDriverRaises ==
    /\ pc = "start"
    /\ exc' = "WebDriverException" /\ pc' = "raised"
    /\ UNCHANGED <<urls, site, url_idx, drv, quit_count, navigated, tableVars,
                   scraped, returned, csv, pureVars>>

\* one pass of the for loop: the page scrapes and its frames are stamped
ScrapeAndStamp ==
    /\ pc = "loop" /\ url_idx <= Len(urls)
    /\ \E page \in SitePages :
         LET url == urls[url_idx]
             res == scrape_one_game(url, page)
         IN  /\ res.exc = "none"
             /\ navigated' = Append(navigated, <<url, drv>>)
             /\ scraped' = Append(scraped, [url |-> url, page |-> page] @@ res)
             /\ batting_lines' = batting_lines \o
                    Stamped(res.grids.batting, "batting", res)
             /\ batting_totals' = batting_totals \o
                    Stamped(res.grids.batting_totals, "batting", res)
             /\ pitching_lines' = pitching_lines \o
                    Stamped(res.grids.pitching, "pitching", res)
             /\ pitching_totals' = pitching_totals \o
                    Stamped(res.grids.pitching_totals, "pitching", res)
    /\ url_idx' = url_idx + 1
    /\ UNCHANGED <<urls, site, pc, drv, quit_count, exc, returned, csv, pureVars>>

\* a mutant: a URL whose scrape raises is skipped and the loop goes on
ScrapeRaisesSkipsUrl ==
    /\ pc = "loop" /\ url_idx <= Len(urls)
    /\ \E page \in SitePages :
         LET url == urls[url_idx]
             res == scrape_one_game(url, page)
         IN  /\ res.exc # "none"
             /\ navigated' = Append(navigated, <<url, drv>>)
    /\ url_idx' = url_idx + 1
    /\ UNCHANGED <<urls, site, pc, drv, quit_count, tableVars, scraped, exc,
                   returned, csv, pureVars>>

\* one pass of the for loop: scrape_one_game raises after driver.get
ScrapeRaises ==
    /\ pc = "loop" /\ url_idx <= Len(urls)
    /\ \E page \in SitePages :
         LET url == urls[url_idx]
             res == scrape_one_game(url, page)
         IN  /\ res.exc # "none"
             /\ navigated' = Append(navigated, <<url, drv>>)
             /\ exc' = res.exc
    /\ pc' = "finally"
    /\ UNCHANGED <<urls, site, url_idx, drv, quit_count, tableVars, scraped,
                   returned, csv, pureVars>>

\* a mutant: drv.quit() follows the loop instead of sitting in a finally
LeaveTryQuitAfterLoop ==
    /\ \/ pc = "loop" /\ url_idx > Len(urls)
       \/ pc = "finally"
    /\ IF exc = "none"
         THEN /\ drv' = "closed" /\ quit_count' = quit_count + 1
              /\ returned' = [done |-> TRUE,
                              bat_lines |-> Concat(batting_lines),
                              pit_lines |-> Concat(pitching_lines),
                              bat_tot |-> Concat(batting_totals),
                              pit_tot |-> Concat(pitching_totals)]
              /\ pc' = "main"
         ELSE /\ UNCHANGED <<drv, quit_count, returned>>
              /\ pc' = "raised"
    /\ UNCHANGED <<urls, site, url_idx, navigated, tableVars, scraped, exc, csv,
                   pureVars>>

\* the try block is left, by the exhausted for loop or by the exception of
\* scrape_one_game: finally drv.quit(); then the return statement with the
\* four concatenated tables, or the exception goes on to the top level
LeaveTry ==
    /\ \/ pc = "loop" /\ url_idx > Len(urls)
       \/ pc = "finally"
    /\ drv' = "closed" /\ quit_count' = quit_count + 1
    /\ IF exc = "none"
         THEN /\ returned' = [done |-> TRUE,
                              bat_lines |-> Concat(batting_lines),
                              pit_lines |-> Concat(pitching_lines),
                              bat_tot |-> Concat(batting_totals),
                              pit_tot |-> Concat(pitching_totals)]
              /\ pc' = "main"
         ELSE /\ returned' = returned
              /\ pc' = "raised"
    /\ UNCHANGED <<urls, site, url_idx, navigated, tableVars, scraped, exc, csv,
                   pureVars>>

\* the main section after aggregate returned: the four to_csv calls (no
\* label of the pages is "LINEUP", so the split of that column is skipped)
WriteCsv ==
    /\ pc = "main"
    /\ csv' = [f \in {"season_batting_lines.csv", "season_pitching_lines.csv",
                      "season_team_batting.csv", "season_team_pitching.csv"} |->
                 CASE f = "season_batting_lines.csv" -> returned.bat_lines
                   [] f = "season_pitching_lines.csv" -> returned.pit_lines
                   [] f = "season_team_batting.csv" -> returned.bat_tot
                   [] OTHER -> returned.pit_tot]
    /\ pc' = "done"
    /\ UNCHANGED <<urls, site, url_idx, drv, quit_count, navigated, tableVars,
                   scraped, exc, returned, pureVars>>

Next == \/ MakeDriver \/ MakeDriverRaises \/ ScrapeAndStamp \/ ScrapeRaises
        \/ LeaveTry \/ WriteCsv

Spec == Init /\ [][Next]_vars

----------------------------------------------------------------------------
(* SpecSession: the same script on the site "teams" *)

InitSession == Start /\ site = "teams"

SpecSession == InitSession /\ [][Next]_vars

----------------------------------------------------------------------------
(* The games of a run and the frames they contribute *)

Sections == {"batting", "pitching"}
ContextFields == {"game_id", "game_date", "section", "team_name", "home_away"}

\* the frames scrape_one_game returned for game i: grids[section] and
\* grids[section + "_totals"], each in DOM order
PayLines(i, s) ==
    IF s = "batting" THEN scraped[i].grids.batting ELSE scraped[i].grids.pitching
PayTotals(i, s) ==
    IF s = "batting" THEN scraped[i].grids.batting_totals
    ELSE scraped[i].grids.pitching_totals

\* the number of frames the games before game i contribute to a table
RECURSIVE LinesBefore(_, _)
LinesBefore(i, s) ==
    IF i <= 1 THEN 0 ELSE LinesBefore(i - 1, s) + Len(PayLines(i - 1, s))

RECURSIVE TotalsBefore(_, _)
TotalsBefore(i, s) ==
    IF i <= 1 THEN 0 ELSE TotalsBefore(i - 1, s) + Len(PayTotals(i - 1, s))

LinesTable(s) == IF s = "batting" THEN batting_lines ELSE pitching_lines
TotalsTable(s) == IF s = "batting" THEN batting_totals ELSE pitching_totals

\* the frame the aggregation keeps for the j-th lines frame of section s of
\* game i, and for the m-th totals frame
LineFrame(i, s, j) == LinesTable(s)[LinesBefore(i, s) + j]
TotalFrame(i, s, m) == TotalsTable(s)[TotalsBefore(i, s) + m]

\* every row of the frame is the extracted record with fields added to it
Extends(frame, recs) ==
    /\ Len(frame) = Len(recs)
    /\ \A n \in DOMAIN recs :
         /\ DOMAIN recs[n] \subseteq DOMAIN frame[n]
         /\ \A f \in DOMAIN recs[n] : frame[n][f] = recs[n][f]

\* the tables hold one frame per frame the games scraped so far returned,
\* in game order and, within a game, in DOM order
FramesInPlace ==
    /\ \A s \in Sections :
         /\ Len(LinesTable(s)) = LinesBefore(Len(scraped) + 1, s)
         /\ Len(TotalsTable(s)) = TotalsBefore(Len(scraped) + 1, s)
    /\ \A i \in DOMAIN scraped : \A s \in Sections :
         /\ \A j \in DOMAIN PayLines(i, s) :
              Extends(LineFrame(i, s, j), PayLines(i, s)[j])
         /\ \A m \in DOMAIN PayTotals(i, s) :
              Extends(TotalFrame(i, s, m), PayTotals(i, s)[m])

Field(row, f) == IF f \in DOMAIN row THEN row[f] ELSE "NaN"

AllRows(frame, f, v) == \A n \in DOMAIN frame : Field(frame[n], f) = v

\* C1: in every game and section the line rows of the first grid of the
\* classification carry "away" and the away team name, those of the second
\* grid "home" and the home team name, whatever the grids contain; with a
\* single grid of the classification no row of the game is stamped "home".
C1_PositionalHomeAway ==
    /\ FramesInPlace
    /\ \A i \in DOMAIN scraped : \A s \in Sections :
         LET n == Len(PayLines(i, s))
         IN  /\ n >= 1 =>
                  /\ AllRows(LineFrame(i, s, 1), "home_away", "away")
                  /\ AllRows(LineFrame(i, s, 1), "team_name", scraped[i].away_team)
             /\ n >= 2 =>
                  /\ AllRows(LineFrame(i, s, 2), "home_away", "home")
                  /\ AllRows(LineFrame(i, s, 2), "team_name", scraped[i].home_team)
             /\ n = 1 =>
                  /\ ~\E r \in DOMAIN LineFrame(i, s, 1) :
                        Field(LineFrame(i, s, 1)[r], "home_away") = "home"
                  /\ \A m \in DOMAIN PayTotals(i, s) :
                        ~\E r \in DOMAIN TotalFrame(i, s, m) :
                           Field(TotalFrame(i, s, m)[r], "home_away") = "home"

\* the second game's page shows a batting grid without a TEAM row before one
\* with a TEAM row, and a single pitching grid; its lines are stamped
C1_Witness ==
    /\ Len(scraped) = 2
    /\ scraped[2].page.roots = <<GBat, GPitTot, GBatTot>>
    /\ scraped[1].page.roots = <<GBatTot>>
    /\ Len(batting_lines) = 3 /\ Len(pitching_lines) = 1
    /\ AllRows(batting_lines[3], "home_away", "home")
    /\ AllRows(pitching_lines[1], "home_away", "away")


\* the line rows of the classified grids among roots[k..], and the number
\* of those grids that have a TEAM row
RECURSIVE ClassifiedLineRows(_, _)
ClassifiedLineRows(roots, k) ==
    IF k > Len(roots) THEN 0
    ELSE LET g == grid_to_lines_and_total(roots[k])
         IN  (IF Section(Columns(g.lines)) \in Sections THEN Len(g.lines) ELSE 0)
             + ClassifiedLineRows(roots, k + 1)

RECURSIVE ClassifiedTotalRows(_, _)
ClassifiedTotalRows(roots, k) ==
    IF k > Len(roots) THEN 0
    ELSE LET g == grid_to_lines_and_total(roots[k])
         IN  (IF Section(Columns(g.lines)) \in Sections THEN Len(g.total) ELSE 0)
             + ClassifiedTotalRows(roots, k + 1)

RECURSIVE RunLineRows(_)
RunLineRows(i) ==
    IF i = 0 THEN 0
    ELSE RunLineRows(i - 1) + ClassifiedLineRows(scraped[i].page.roots, 1)

RECURSIVE RunTotalRows(_)
RunTotalRows(i) ==
    IF i = 0 THEN 0
    ELSE RunTotalRows(i - 1) + ClassifiedTotalRows(scraped[i].page.roots, 1)

\* C2 as stated: the rows of all four returned tables are as many as the
\* extracted non-total rows of the classified grids of the games.
C2_AllTablesConservation ==
    returned.done =>
        Len(returned.bat_lines) + Len(returned.pit_lines)
          + Len(returned.bat_tot) + Len(returned.pit_tot)
        = RunLineRows(Len(scraped))

\* C2 amended: the rows of the two player-line tables are as many as the
\* extracted non-total rows of the classified grids of the games, and the
\* two totals tables hold, besides, one row per classified grid that has a
\* TEAM row; unclassified grids contribute to neither.
C2_LinesConservation ==
    returned.done =>
        /\ Len(returned.bat_lines) + Len(returned.pit_lines)
             = RunLineRows(Len(scraped))
        /\ Len(returned.bat_tot) + Len(returned.pit_tot)
             = RunTotalRows(Len(scraped))

\* two games were aggregated, one of them showing an unclassified grid
\* before a batting and a pitching grid that both have a TEAM row
C2_Witness ==
    /\ returned.done /\ Len(scraped) = 2
    /\ scraped[1].page.roots = <<GOther, GBatTot, GPitTot>>
    /\ scraped[2].page.roots = <<GBat, GOther>>
    /\ Len(returned.bat_lines) = 2 /\ Len(returned.pit_lines) = 1
    /\ Len(returned.bat_tot) = 1 /\ Len(returned.pit_tot) = 1

\* C5: every row of the frames a game contributes, player lines and team
\* totals, carries that game's identifier and date and the section of its
\* grid; the tables hold no other frames, and the batting tables hold only
\* batting rows, the pitching tables only pitching rows.
C5_GameStamps ==
    /\ FramesInPlace
    /\ \A i \in DOMAIN scraped : \A s \in Sections :
         LET gid == UuidSearch(scraped[i].url)
             date == scraped[i].page.event_time
             Own(frame) == /\ AllRows(frame, "game_id", gid)
                           /\ AllRows(frame, "game_date", date)
                           /\ AllRows(frame, "section", s)
         IN  /\ gid # None /\ date # None
             /\ \A j \in DOMAIN PayLines(i, s) : Own(LineFrame(i, s, j))
             /\ \A m \in DOMAIN PayTotals(i, s) : Own(TotalFrame(i, s, m))
    /\ returned.done =>
         /\ returned.bat_lines = Concat(batting_lines)
         /\ returned.pit_lines = Concat(pitching_lines)
         /\ returned.bat_tot = Concat(batting_totals)
         /\ returned.pit_tot = Concat(pitching_totals)
         /\ AllRows(returned.bat_lines, "section", "batting")
         /\ AllRows(returned.bat_tot, "section", "batting")
         /\ AllRows(returned.pit_lines, "section", "pitching")
         /\ AllRows(returned.pit_tot, "section", "pitching")

\* two games with different identifiers and dates, each with two batting
\* grids and a pitching grid, were aggregated and returned
C5_Witness ==
    /\ returned.done /\ Len(scraped) = 2
    /\ scraped[1].game_id # scraped[2].game_id
    /\ scraped[1].date_str # scraped[2].date_str
    /\ \A i \in 1..2 : Len(PayLines(i, "batting")) = 2
                       /\ Len(PayLines(i, "pitching")) = 1
    /\ Len(returned.bat_tot) >= 2 /\ Len(returned.pit_tot) = 2

Terminated == pc \in {"main", "done", "raised"}

\* C6: once the session is acquired, the script leaves aggregate, by return
\* or by an exception of any URL, with the session closed, closed once, and
\* every page was navigated while the session was open.
C6_SessionClosed ==
    /\ quit_count <= 1
    /\ (quit_count = 1) = (drv = "closed")
    /\ (Terminated /\ drv # "none") => drv = "closed"
    /\ (Terminated /\ Len(navigated) > 0) => drv = "closed"
    /\ \A k \in DOMAIN navigated : navigated[k][2] = "open"
    /\ drv = "closed" => Terminated

\* the second URL's page never showed the player column: the wait timed
\* out, and the exception left aggregate with the session closed
C6_Witness ==
    /\ pc = "raised" /\ exc = "TimeoutException"
    /\ Len(navigated) = 2 /\ Len(scraped) = 1
    /\ drv = "closed" /\ quit_count = 1

\* C7: the URLs are navigated in input order, once each; a URL whose scrape
\* raised is the last one navigated, and from then on the script only
\* unwinds: aggregate returns no tables and no file is written, whatever was
\* collected before; files are written only after every URL was scraped.
C7_AbortOnError ==
    /\ Len(navigated) <= Len(urls)
    /\ \A k \in DOMAIN navigated : navigated[k][1] = urls[k]
    /\ \A k \in DOMAIN scraped : scraped[k].url = urls[k]
    /\ Len(scraped) <= Len(navigated)
    /\ Len(navigated) > Len(scraped) =>
         /\ Len(navigated) = Len(scraped) + 1
         /\ exc # "none"
         /\ pc \in {"finally", "raised"}
    /\ exc # "none" =>
         /\ ~returned.done
         /\ DOMAIN csv = {}
         /\ pc \in {"finally", "raised"}
    /\ DOMAIN csv # {} => Len(scraped) = Len(urls) /\ returned.done

\* the second URL has no game identifier: the run ended with the rows of
\* the first game collected, nothing returned and nothing written
C7_Witness ==
    /\ pc = "raised" /\ exc = "AttributeError: game id"
    /\ Len(urls) = 2 /\ Len(navigated) = 2 /\ Len(scraped) = 1
    /\ Len(batting_lines) = 2 /\ Len(pitching_totals) = 1
    /\ ~returned.done /\ DOMAIN csv = {}

Stamped5(table) ==
    \A n \in DOMAIN table :
        /\ ContextFields \subseteq DOMAIN table[n]
        /\ table[n]["home_away"] \in {"away", "home"}

\* C9 as stated: every row of the four returned tables carries the five
\* context fields, home_away being "away" or "home".
C9_AllRowsStamped ==
    returned.done =>
        /\ Stamped5(returned.bat_lines) /\ Stamped5(returned.pit_lines)
        /\ Stamped5(returned.bat_tot) /\ Stamped5(returned.pit_tot)

\* C9 amended: the rows of the frames of a game and section with at most two
\* grids of that classification carry the five context fields, home_away
\* being "away" or "home"; so does every row of the returned tables when no
\* page of the run has more than two grids of one classification.
C9_StampedUpToTwoGrids ==
    /\ FramesInPlace
    /\ \A i \in DOMAIN scraped : \A s \in Sections :
         Len(PayLines(i, s)) <= 2 =>
            /\ \A j \in DOMAIN PayLines(i, s) : Stamped5(LineFrame(i, s, j))
            /\ \A m \in DOMAIN PayTotals(i, s) : Stamped5(TotalFrame(i, s, m))
    /\ (returned.done
          /\ \A i \in DOMAIN scraped : \A s \in Sections :
                Len(PayLines(i, s)) <= 2) =>
         /\ Stamped5(returned.bat_lines) /\ Stamped5(returned.pit_lines)
         /\ Stamped5(returned.bat_tot) /\ Stamped5(returned.pit_tot)

\* a game with two batting grids and one pitching grid was returned
C9_Witness ==
    /\ returned.done /\ Len(scraped) = 1
    /\ scraped[1].page.roots = <<GBatTot, GPitTot, GBatTot>>
    /\ Len(returned.bat_lines) = 2 /\ Len(returned.bat_tot) = 2
    /\ Stamped5(returned.bat_lines) /\ Stamped5(returned.bat_tot)

\* C10: the total row of a classified grid carries the team_name and the
\* home_away of the line rows of the same grid.
C10_TotalFollowsLines ==
    \A i \in DOMAIN scraped : \A s \in Sections :
        LET roots == scraped[i].page.roots
            cls == IndicesWhere([k \in DOMAIN roots |->
                     Section(Columns(grid_to_lines_and_total(roots[k]).lines)) = s],
                     1)
            tot == IndicesWhere([j \in DOMAIN cls |->
                     grid_to_lines_and_total(roots[cls[j]]).total # <<>>], 1)
        IN  \A m \in DOMAIN tot :
              \A f \in {"team_name", "home_away"} :
                \A r \in DOMAIN TotalFrame(i, s, m) :
                  \A q \in DOMAIN LineFrame(i, s, tot[m]) :
                     Field(TotalFrame(i, s, m)[r], f)
                       = Field(LineFrame(i, s, tot[m])[q], f)

----------------------------------------------------------------------------
(* SpecGrid: grid_to_lines_and_total applied to one grid subtree *)

InitGrid == AggIdle /\ ParseIdle /\ TeamsIdle
            /\ root \in Roots /\ extracted = NotExtracted

GridExtract ==
    /\ ~extracted.done
    /\ extracted' = [done |-> TRUE] @@ grid_to_lines_and_total(root)
    /\ UNCHANGED <<aggVars, root, html, data, soup, teams>>

NextGrid == GridExtract

SpecGrid == InitGrid /\ [][NextGrid]_vars

\* the records of the grid's rows, one per row, in row order
GridRecs == [k \in 1..Len(root.rows) |-> RowRecord(root.headers, root.rows[k])]

\* every data row yields at least one field
AllRowsYield == \A k \in DOMAIN root.rows : root.rows[k] # <<>>

\* the rows whose player field (the field of the "player" column) is "TEAM"
TeamRowIdx ==
    LET lbl == IF "player" \in DOMAIN root.headers
               THEN root.headers["player"] ELSE "player"
    IN  {k \in DOMAIN root.rows :
            lbl \in DOMAIN GridRecs[k] /\ GridRecs[k][lbl] = "TEAM"}

Without(s, t) == [k \in 1..(Len(s) - 1) |-> IF k < t THEN s[k] ELSE s[k + 1]]

\* C3: for a grid whose N rows each yield a field, the extractor returns the
\* N records and no total when no row's player field is "TEAM", and when
\* exactly one is, that row as the total and the other N-1 records, in
\* their original order, as the lines.
C3_ExtractCounts ==
    (extracted.done /\ AllRowsYield) =>
        /\ TeamRowIdx = {} =>
              /\ extracted.lines = GridRecs
              /\ Len(extracted.lines) = Len(root.rows)
              /\ extracted.total = <<>>
        /\ Cardinality(TeamRowIdx) = 1 =>
              LET t == CHOOSE k \in TeamRowIdx : TRUE
              IN  /\ Len(extracted.lines) = Len(root.rows) - 1
                  /\ extracted.lines = Without(GridRecs, t)
                  /\ extracted.total = <<GridRecs[t]>>

\* a grid of three rows whose middle row is the TEAM row has been extracted
C3_Witness ==
    /\ extracted.done /\ AllRowsYield
    /\ Len(root.rows) = 3 /\ TeamRowIdx = {2}
    /\ Len(extracted.lines) = 2 /\ Len(extracted.total) = 1

----------------------------------------------------------------------------
(* SpecParse: parse_player_grids applied to the grid roots of one page *)

InitParse == AggIdle /\ GridIdle /\ TeamsIdle
             /\ html \in SeqsUpTo(ParseGrids, MaxGrids) /\ data = NotParsed

ParsePage ==
    /\ ~data.done
    /\ data' = [done |-> TRUE] @@ parse_player_grids(html)
    /\ UNCHANGED <<aggVars, root, extracted, html, soup, teams>>

NextParse == ParsePage

SpecParse == InitParse /\ [][NextParse]_vars

\* the column labels of the line records of the k-th grid of the page
LineLabels(k) == Columns(grid_to_lines_and_total(html[k]).lines)
HasBatting(k) == {"AB", "R", "H"} \subseteq LineLabels(k)
HasPitching(k) == {"IP", "ER", "SO"} \subseteq LineLabels(k)

\* the lines of the grids with index in idx, in DOM order
LinesAt(idx) == [j \in DOMAIN idx |-> grid_to_lines_and_total(html[idx[j]]).lines]

\* C4: a grid is routed by the labels of its line records alone: to batting
\* when they include AB, R and H (also when they include IP, ER and SO as
\* well), to pitching when they include IP, ER and SO but not all of AB, R,
\* H, and to neither section otherwise; never to both.
C4_Classification ==
    data.done =>
        LET bat == IndicesWhere([k \in DOMAIN html |-> HasBatting(k)], 1)
            pit == IndicesWhere([k \in DOMAIN html |->
                                    HasPitching(k) /\ ~HasBatting(k)], 1)
        IN  /\ data.batting = LinesAt(bat)
            /\ data.pitching = LinesAt(pit)
            /\ Len(data.batting) + Len(data.pitching) <= Len(html)

\* a page with a grid carrying both signatures, a pitching grid and an
\* unclassified grid has been parsed
C4_Witness ==
    /\ data.done /\ Len(html) = 3
    /\ HasBatting(1) /\ HasPitching(1)
    /\ HasPitching(2) /\ ~HasBatting(2)
    /\ ~HasPitching(3) /\ ~HasBatting(3)
    /\ Len(data.batting) = 1 /\ Len(data.pitching) = 1

----------------------------------------------------------------------------
(* SpecTeams: the team names block of scrape_one_game on one page header *)

Anchors == {[href |-> <<"teams", "t1">>, text |-> "Lions"],
            [href |-> <<"teams", "t2">>, text |-> "Tigers"],
            [href |-> <<"home">>, text |-> "Home"]}

Soups == [away_tag : {None, "Ants"}, home_tag : {None, "Hawks"},
          header_links : SeqsUpTo(Anchors, MaxAnchors)]

InitTeams == AggIdle /\ GridIdle /\ ParseIdle
             /\ soup \in Soups /\ teams = NotResolved

ResolveTeams ==
    /\ ~teams.done
    /\ teams' = [done |-> TRUE] @@ team_names(soup)
    /\ UNCHANGED <<aggVars, root, extracted, html, data, soup>>

NextTeams == ResolveTeams

SpecTeams == InitTeams /\ [][NextTeams]_vars

\* the texts of the header anchors that link to a team, in DOM order
TeamLinkTexts ==
    LET idx == IndicesWhere([k \in DOMAIN soup.header_links |->
                               "teams" \in Range(soup.header_links[k].href)], 1)
    IN  [j \in DOMAIN idx |-> soup.header_links[idx[j]].text]

\* C8: with both dedicated elements present their texts are the names; with
\* either one missing both names come from the first two team anchors of the
\* header (position 0 away, position 1 home), "unknown" standing in for a
\* missing anchor; the resolution never raises.
C8_TeamNames ==
    teams.done =>
        /\ teams.exc = "none"
        /\ (soup.away_tag # None /\ soup.home_tag # None) =>
              teams.away = soup.away_tag /\ teams.home = soup.home_tag
        /\ (soup.away_tag = None \/ soup.home_tag = None) =>
              /\ teams.away = IF Len(TeamLinkTexts) >= 1
                              THEN TeamLinkTexts[1] ELSE "unknown"
              /\ teams.home = IF Len(TeamLinkTexts) >= 2
                              THEN TeamLinkTexts[2] ELSE "unknown"

\* names were resolved from a header with the away element only and a
\* single team anchor behind an anchor that links elsewhere
C8_Witness ==
    /\ teams.done
    /\ soup.away_tag # None /\ soup.home_tag = None
    /\ Len(soup.header_links) = 2 /\ Len(TeamLinkTexts) = 1
    /\ teams.away = TeamLinkTexts[1] /\ teams.home = "unknown"

=============================================================================
